---- MODULE Spec2Model ----
(***************************************************************************)
(* Model of boost::pfr::detail::offset_based_getter and                    *)
(* make_flat_tuple_of_references.                                          *)
(*                                                                         *)
(* Types are values [k, el]: k names a scalar type or "tuple", el lists    *)
(* the element types of a tuple (a nested record of U corresponds to a     *)
(* nested sequence_tuple::tuple of S).  A reference is a value             *)
(* [addr, ty, cv]: the address it aliases, the referred type and the set   *)
(* of qualifiers of the referred type.  Template recursion is run as a     *)
(* stack machine with one frame per make_flat_tuple_of_references call.    *)
(***************************************************************************)
EXTENDS Integers, Sequences, FiniteSets, TLC

VARIABLES U, S, uq, cv, base, order, phase, failed, stack, ret, result,
          mem, lastWrite, nwrites, lastGet, lastCat, lastCall, maxLvl, steps

vars == <<U, S, uq, cv, base, order, phase, failed, stack, ret, result,
          mem, lastWrite, nwrites, lastGet, lastCat, lastCall, maxLvl, steps>>

(***************************************************************************)
(* Bounds of the model.                                                    *)
(***************************************************************************)
\* longest member list of the records whose flattening is explored
MaxArity == 3
\* widest flat record (all members one byte wide) whose recursion is explored
MaxWide == 64
\* longest member list of U and of S when instantiation is explored
MaxMembers == 2
\* longest member list of the records that are written to
MaxFields == 2
\* number of writes performed on a record after its flattening
MaxWrites == 2

(***************************************************************************)
(* Types.                                                                  *)
(***************************************************************************)
Scalar(name) == [k |-> name, el |-> <<>>]
Tup(elems) == [k |-> "tuple", el |-> elems]

TChar == Scalar("char")
TShort == Scalar("short")
TInt == Scalar("int")

IsTuple(ty) == ty.k = "tuple"

\* element types the explored member lists are drawn from
ElemPool ==
    { TChar, TInt, Tup(<<>>), Tup(<<TChar, TInt>>), Tup(<<Tup(<<TShort>>), TChar>>) }

\* member types of the records that are written to
WritePool == { TChar, TInt, Tup(<<TChar, TInt>>) }

\* member types of the records and member lists that are instantiated
MemberPool == { TChar, TShort, TInt, Tup(<<TChar, TInt>>) }

SeqsUpTo(P, n) == UNION { [1..m -> P] : m \in 0..n }

Quals == { {}, {"const"}, {"volatile"}, {"const", "volatile"} }

RoundUp(x, a) == ((x + a - 1) \div a) * a

Max(a, b) == IF a >= b THEN a ELSE b

(***************************************************************************)
(* Object layout.  A cell is [s, a]: an object of size s and alignment a.  *)
(* Cells are laid out in order, each at the next address that is a         *)
(* multiple of its alignment.                                              *)
(***************************************************************************)
\* where the last of cells lo..hi ends when they are laid out from start on
RECURSIVE EndOf(_, _, _, _)
EndOf(cells, lo, hi, start) ==
    IF lo > hi THEN start
    ELSE IF lo = hi THEN RoundUp(start, cells[lo].a) + cells[lo].s
    ELSE LET mid == (lo + hi) \div 2
             half == EndOf(cells, lo, mid, start)
         IN  IF half >= start THEN EndOf(cells, mid + 1, hi, half) ELSE half

\* offset of the i-th of the cells
Place(cells, i) == RoundUp(EndOf(cells, 1, i - 1, 0), cells[i].a)

MaxAlign(cells) ==
    IF Len(cells) = 0 THEN 1
    ELSE CHOOSE a \in {cells[i].a : i \in 1..Len(cells)} :
            \A i \in 1..Len(cells) : a >= cells[i].a

\* offset of the i-th element of a sequence_tuple::tuple whose elements are
\* cells
TupleOffset(cells, i) == Place(cells, i)

TupleAlign(cells) == MaxAlign(cells)

TupleSize(cells) ==
    IF Len(cells) = 0 THEN 1
    ELSE RoundUp(EndOf(cells, 1, Len(cells), 0), TupleAlign(cells))

RECURSIVE SizeOf(_)
RECURSIVE AlignOf(_)
SizeOf(ty) ==
    CASE ty.k = "char" -> 1
      [] ty.k = "short" -> 2
      [] ty.k = "int" -> 4
      [] ty.k = "tuple" ->
            TupleSize([i \in 1..Len(ty.el) |->
                          [s |-> SizeOf(ty.el[i]), a |-> AlignOf(ty.el[i])]])

AlignOf(ty) ==
    CASE ty.k = "char" -> 1
      [] ty.k = "short" -> 2
      [] ty.k = "int" -> 4
      [] ty.k = "tuple" ->
            TupleAlign([i \in 1..Len(ty.el) |->
                           [s |-> SizeOf(ty.el[i]), a |-> AlignOf(ty.el[i])]])

\* the elements of a tuple type as cells
CellsOf(ty) ==
    [i \in 1..Len(ty.el) |-> [s |-> SizeOf(ty.el[i]), a |-> AlignOf(ty.el[i])]]

(***************************************************************************)
(* The user record U: an aggregate whose members are laid out in           *)
(* declaration order with their natural padding.                           *)
(***************************************************************************)
\* offset of the i-th member
RecordOffset(rec, i) == Place(CellsOf(rec), i)

RecordAlign(rec) == MaxAlign(CellsOf(rec))

RecordSize(rec) ==
    IF Len(rec.el) = 0 THEN 1
    ELSE RoundUp(EndOf(CellsOf(rec), 1, Len(rec.el), 0), RecordAlign(rec))

(***************************************************************************)
(* offset_based_getter<U, S>.                                              *)
(***************************************************************************)
internal_aligned_storage(s, a) == [s |-> RoundUp(s, a), a |-> a]

\* cells that keep the size but not the alignment of the member types
tuple_of_unaligned_storage(types) ==
    [i \in 1..Len(types) |-> internal_aligned_storage(SizeOf(types[i]), 1)]

tuple_of_aligned_storage(types) ==
    [i \in 1..Len(types) |->
        internal_aligned_storage(SizeOf(types[i]), AlignOf(types[i]))]

\* the assertions without the one on alignment
StaticAssertsNoAlign(u, s, q) ==
    {"size" : x \in IF RecordSize(u) = SizeOf(Tup(s)) THEN {} ELSE {1}}
    \cup {"const" : x \in IF q = "const" THEN {1} ELSE {}}
    \cup {"reference" : x \in IF q = "reference" THEN {1} ELSE {}}
    \cup {"volatile" : x \in IF q = "volatile" THEN {1} ELSE {}}

\* the assertions with the size of U only required to hold the members of S
StaticAssertsSizeAtLeast(u, s, q) ==
    {"size" : x \in IF RecordSize(u) >= SizeOf(Tup(s)) THEN {} ELSE {1}}
    \cup {"align" : x \in IF RecordAlign(u) = AlignOf(Tup(s)) THEN {} ELSE {1}}
    \cup {"const" : x \in IF q = "const" THEN {1} ELSE {}}
    \cup {"reference" : x \in IF q = "reference" THEN {1} ELSE {}}
    \cup {"volatile" : x \in IF q = "volatile" THEN {1} ELSE {}}

\* the static assertions of the class template: the names of those that fail
StaticAsserts(u, s, q) ==
    {"size" : x \in IF RecordSize(u) = SizeOf(Tup(s)) THEN {} ELSE {1}}
    \cup {"align" : x \in IF RecordAlign(u) = AlignOf(Tup(s)) THEN {} ELSE {1}}
    \cup {"const" : x \in IF q = "const" THEN {1} ELSE {}}
    \cup {"reference" : x \in IF q = "reference" THEN {1} ELSE {}}
    \cup {"volatile" : x \in IF q = "volatile" THEN {1} ELSE {}}

index_t(idx) == S[idx + 1]

\* an offset that ignores the padding in front of the members
offset_packed(idx, layoutAddr) ==
    LET layout == tuple_of_unaligned_storage(S)
        member == layoutAddr + TupleOffset(layout, idx + 1)
    IN  member - layoutAddr

\* layoutAddr is the address of the local object `layout`
offset(idx, layoutAddr) ==
    LET layout == tuple_of_aligned_storage(S)
        member == layoutAddr + TupleOffset(layout, idx + 1)
    IN  member - layoutAddr

\* the overloads with the one for const U returning an unqualified pointer
get_pointer_drops_const(u, idx, layoutAddr) ==
    [addr |-> u.addr + offset(idx, layoutAddr), ty |-> index_t(idx),
     cv |-> u.cv \ {"const"}]

get_pointer(u, idx, layoutAddr) ==
    CASE u.cv = {} ->
            [addr |-> u.addr + offset(idx, layoutAddr), ty |-> index_t(idx),
             cv |-> {}]
      [] u.cv = {"const"} ->
            [addr |-> u.addr + offset(idx, layoutAddr), ty |-> index_t(idx),
             cv |-> {"const"}]
      [] u.cv = {"volatile"} ->
            [addr |-> u.addr + offset(idx, layoutAddr), ty |-> index_t(idx),
             cv |-> {"volatile"}]
      [] u.cv = {"const", "volatile"} ->
            [addr |-> u.addr + offset(idx, layoutAddr), ty |-> index_t(idx),
             cv |-> {"const", "volatile"}]

offset_based_get(u, idx, layoutAddr) == get_pointer(u, idx, layoutAddr)

(***************************************************************************)
(* sequence_tuple::get and sequence_tuple_getter.                          *)
(***************************************************************************)
\* get<idx> of a tuple object: the element keeps the tuple's qualification
sequence_tuple_get(t, idx) ==
    [addr |-> t.addr + TupleOffset(CellsOf(t.ty), idx + 1),
     ty |-> t.ty.el[idx + 1],
     cv |-> t.cv]

sequence_tuple_getter_get(t, idx) == sequence_tuple_get(t, idx)

Get(g, t, idx, layoutAddr) ==
    IF g = "offset" THEN offset_based_get(t, idx, layoutAddr)
    ELSE sequence_tuple_getter_get(t, idx)

(***************************************************************************)
(* tie_as_tuple_with_references and my_tuple_cat.  A tuple of references   *)
(* is the sequence of its references.                                      *)
(***************************************************************************)
\* overload resolution without the overload for const tuples
TieFlattensNonConst(args) ==
    /\ Len(args) = 1
    /\ IsTuple(args[1].ty)
    /\ args[1].cv = {}

\* overload resolution: a single lvalue argument that is a tuple, const or
\* not but not volatile, selects the flattening overloads
TieFlattens(args) ==
    /\ Len(args) = 1
    /\ IsTuple(args[1].ty)
    /\ "volatile" \notin args[1].cv

\* the variadic overload: tuple<T&...>{ args... }
TieDirect(args) == args

\* a concatenation that puts the second tuple first
my_tuple_cat_swapped(t1, t2) ==
    [k \in 1..(Len(t1) + Len(t2)) |->
        IF k <= Len(t2) THEN t2[k] ELSE t1[k - Len(t2)]]

\* the arguments my_tuple_cat_impl hands to tie_as_tuple_with_references
my_tuple_cat_impl(t1, t2) ==
    [k \in 1..(Len(t1) + Len(t2)) |->
        IF k <= Len(t1) THEN t1[k] ELSE t2[k - Len(t1)]]

my_tuple_cat(t1, t2) == my_tuple_cat_impl(t1, t2)

(***************************************************************************)
(* State.                                                                  *)
(*   U, S     the record type and the member list of offset_based_getter   *)
(*   uq       how the template argument U is qualified                     *)
(*   cv, base qualification and address of the record handed to the        *)
(*            builder                                                      *)
(*   order    which of two function arguments the build evaluates first    *)
(*   phase    "inst", "accepted", "rejected", "run" or "done"              *)
(*   failed   the static assertions that failed                            *)
(*   stack    the make_flat_tuple_of_references calls in progress          *)
(*   ret      the value the last finished call returned                    *)
(*   result   the tuple of references the outermost call returned          *)
(*   mem      the bytes of the record, by address                          *)
(* lastWrite, nwrites, lastGet, lastCat, lastCall, maxLvl and steps record *)
(* what the last operations did.                                           *)
(***************************************************************************)
None == [has |-> FALSE, v |-> <<>>]
Some(x) == [has |-> TRUE, v |-> x]

NoGet == [has |-> FALSE]
NoCat == [has |-> FALSE]
NoCall == [has |-> FALSE]
NoWrite == [kind |-> "none"]

StackAddrs == {4096, 8192}
BaseAddrs == {64}
Orders == {"L", "R"}
Values == {1, 2}

\* a call make_flat_tuple_of_references(t, g, size_t_<begin>, size_t_<size>);
\* lvl counts the splits between it and the call that started its recursion,
\* n is the size of that call, nest counts the tuples it is nested in
Frame(t, g, begin, size, lvl, nest, n) ==
    [t |-> t, g |-> g, begin |-> begin, size |-> size, pc |-> "call",
     accL |-> None, accR |-> None, lvl |-> lvl, nest |-> nest, n |-> n]

\* the call f has returned v
Returned(f, v) ==
    [has |-> TRUE, t |-> f.t, g |-> f.g, begin |-> f.begin, size |-> f.size,
     lvl |-> f.lvl, nest |-> f.nest, v |-> v]

Top == stack[Len(stack)]
Pop == SubSeq(stack, 1, Len(stack) - 1)
SetTop(f) == [stack EXCEPT ![Len(stack)] = f]

Running == phase = "run" /\ Len(stack) > 0

\* a split that peels one element off instead of halving
next_size_linear(size) == size - 1

next_size(size) == size \div 2

\* a right half that starts where the left half starts
RightHalfSameBegin(f) ==
    Frame(f.t, f.g, f.begin, f.size - next_size(f.size),
          f.lvl + 1, f.nest, f.n)

\* a right half that is one element short
RightHalfShort(f) ==
    Frame(f.t, f.g, f.begin + f.size \div 2, f.size - next_size(f.size) - 1,
          f.lvl + 1, f.nest, f.n)

\* the two halves of the general case
LeftHalf(f) ==
    Frame(f.t, f.g, f.begin, next_size(f.size), f.lvl + 1, f.nest, f.n)

RightHalf(f) ==
    Frame(f.t, f.g, f.begin + f.size \div 2, f.size - next_size(f.size),
          f.lvl + 1, f.nest, f.n)

\* the call the flattening overloads of tie_as_tuple_with_references make
FlattenCall(r, nest) ==
    Frame(r, "sequence", 0, Len(r.ty.el), 0, nest + 1, Len(r.ty.el))

Track(f) ==
    /\ maxLvl' = IF f.nest = 0 THEN Max(maxLvl, f.lvl) ELSE maxLvl
    /\ steps' = steps + 1

Step == /\ steps' = steps + 1
        /\ UNCHANGED maxLvl

Frozen ==
    UNCHANGED <<U, S, uq, cv, base, order, failed, mem, lastWrite, nwrites>>

(***************************************************************************)
(* make_flat_tuple_of_references, size 0: the empty tuple.                 *)
(***************************************************************************)
AtEmptyCase == Running /\ Top.pc = "call" /\ Top.size = 0

EmptyCase ==
    /\ AtEmptyCase
    /\ stack' = Pop
    /\ ret' = Some(<<>>)
    /\ lastCall' = Returned(Top, <<>>)
    /\ Step
    /\ Frozen /\ UNCHANGED <<phase, result, lastGet, lastCat>>

(***************************************************************************)
(* make_flat_tuple_of_references, size 1:                                  *)
(* tie_as_tuple_with_references(g.get(t, Begin)).                          *)
(***************************************************************************)
AtSingleCase == Running /\ Top.pc = "call" /\ Top.size = 1

SingleCase ==
    /\ AtSingleCase
    /\ \E layoutAddr \in StackAddrs :
          LET f == Top
              r == Get(f.g, f.t, f.begin, layoutAddr)
          IN  /\ lastGet' = [has |-> TRUE, g |-> f.g, t |-> f.t,
                             idx |-> f.begin, r |-> r]
              /\ IF TieFlattens(<<r>>)
                 THEN /\ stack' = Append(SetTop([f EXCEPT !.pc = "tie"]),
                                         FlattenCall(r, f.nest))
                      /\ ret' = None
                      /\ UNCHANGED lastCall
                      /\ Track(FlattenCall(r, f.nest))
                 ELSE /\ stack' = Pop
                      /\ ret' = Some(TieDirect(<<r>>))
                      /\ lastCall' = Returned(f, TieDirect(<<r>>))
                      /\ Step
    /\ Frozen /\ UNCHANGED <<phase, result, lastCat>>

(***************************************************************************)
(* make_flat_tuple_of_references, general case: the two recursive calls    *)
(* are arguments of one call; the build evaluates first the one order      *)
(* names.                                                                  *)
(***************************************************************************)
AtSplitCase == Running /\ Top.pc = "call" /\ Top.size > 1

SplitCase ==
    /\ AtSplitCase
    /\ LET f == Top
           child == IF order = "L" THEN LeftHalf(f) ELSE RightHalf(f)
       IN  /\ stack' = Append(SetTop([f EXCEPT !.pc = order]), child)
           /\ Track(child)
    /\ ret' = None
    /\ Frozen /\ UNCHANGED <<phase, result, lastGet, lastCat, lastCall>>

\* the first half has returned: evaluate the other one
AtSecondHalf ==
    /\ Running /\ Top.pc \in {"L", "R"} /\ ret.has
    /\ ~Top.accL.has /\ ~Top.accR.has

SecondHalf ==
    /\ AtSecondHalf
    /\ LET f == Top
           g == IF f.pc = "L" THEN [f EXCEPT !.accL = ret, !.pc = "R"]
                ELSE [f EXCEPT !.accR = ret, !.pc = "L"]
           child == IF f.pc = "L" THEN RightHalf(f) ELSE LeftHalf(f)
       IN  /\ stack' = Append(SetTop(g), child)
           /\ Track(child)
    /\ ret' = None
    /\ Frozen /\ UNCHANGED <<phase, result, lastGet, lastCat, lastCall>>

\* both halves have returned: my_tuple_cat(left, right)
AtConcat ==
    /\ Running /\ Top.pc \in {"L", "R"} /\ ret.has
    /\ Top.accL.has \/ Top.accR.has

Concat ==
    /\ AtConcat
    /\ LET f == Top
           t1 == IF f.pc = "L" THEN ret.v ELSE f.accL.v
           t2 == IF f.pc = "R" THEN ret.v ELSE f.accR.v
           args == my_tuple_cat(t1, t2)
       IN  IF TieFlattens(args)
           THEN /\ stack' = Append(SetTop([f EXCEPT !.pc = "tie"]),
                                   FlattenCall(args[1], f.nest))
                /\ ret' = None
                /\ lastCat' = [has |-> TRUE, t1 |-> t1, t2 |-> t2,
                               direct |-> FALSE, res |-> <<>>]
                /\ UNCHANGED lastCall
                /\ Track(FlattenCall(args[1], f.nest))
           ELSE /\ stack' = Pop
                /\ ret' = Some(TieDirect(args))
                /\ lastCat' = [has |-> TRUE, t1 |-> t1, t2 |-> t2,
                               direct |-> TRUE, res |-> TieDirect(args)]
                /\ lastCall' = Returned(f, TieDirect(args))
                /\ Step
    /\ Frozen /\ UNCHANGED <<phase, result, lastGet>>

\* a flattening overload of tie_as_tuple_with_references returns what its
\* call of make_flat_tuple_of_references returned
AtTieReturn == Running /\ Top.pc = "tie" /\ ret.has

TieReturn ==
    /\ AtTieReturn
    /\ stack' = Pop
    /\ lastCall' = Returned(Top, ret.v)
    /\ Step
    /\ Frozen /\ UNCHANGED <<phase, result, ret, lastGet, lastCat>>

\* the outermost call has returned
AtFinish == phase = "run" /\ Len(stack) = 0 /\ ret.has

Finish ==
    /\ AtFinish
    /\ phase' = "done"
    /\ result' = ret.v
    /\ Step
    /\ Frozen /\ UNCHANGED <<stack, ret, lastGet, lastCat, lastCall>>

(***************************************************************************)
(* The record's own storage: its scalar members, nested records included,  *)
(* in declaration order.  top is the index of the member of U the scalar   *)
(* belongs to and direct tells whether it is that member itself.           *)
(***************************************************************************)
RECURSIVE Leaves(_, _)
RECURSIVE LeavesOf(_, _, _, _)
Leaves(ty, addr) ==
    IF ~IsTuple(ty) THEN <<[addr |-> addr, ty |-> ty]>>
    ELSE LeavesOf(ty, addr, 1, Len(ty.el))

\* the scalars of members lo..hi of the record ty at addr
LeavesOf(ty, addr, lo, hi) ==
    IF lo > hi THEN <<>>
    ELSE IF lo = hi THEN Leaves(ty.el[lo], addr + RecordOffset(ty, lo))
    ELSE LeavesOf(ty, addr, lo, (lo + hi) \div 2)
         \o LeavesOf(ty, addr, (lo + hi) \div 2 + 1, hi)

RECURSIVE MemberLeavesOf(_, _, _, _)
MemberLeavesOf(rec, addr, lo, hi) ==
    IF lo > hi THEN <<>>
    ELSE IF lo = hi
    THEN LET sub == Leaves(rec.el[lo], addr + RecordOffset(rec, lo))
         IN  [j \in 1..Len(sub) |->
                [addr |-> sub[j].addr, ty |-> sub[j].ty, top |-> lo - 1,
                 direct |-> ~IsTuple(rec.el[lo])]]
    ELSE MemberLeavesOf(rec, addr, lo, (lo + hi) \div 2)
         \o MemberLeavesOf(rec, addr, (lo + hi) \div 2 + 1, hi)

MemberLeaves(rec, addr) == MemberLeavesOf(rec, addr, 1, Len(rec.el))

RecordLeaves == MemberLeaves(U, base)

Read(a) == IF a \in DOMAIN mem THEN mem[a] ELSE -1

Store(a, v) == [x \in DOMAIN mem \cup {a} |-> IF x = a THEN v ELSE mem[x]]

(***************************************************************************)
(* Writes after the tuple of references was built: r.m = v on a scalar     *)
(* member of the record, and e = v through an entry of the tuple.  An      *)
(* assignment through a reference to const is ill-formed.                  *)
(***************************************************************************)
WriteMember ==
    /\ phase = "done" /\ nwrites < MaxWrites
    /\ \E k \in 1..Len(RecordLeaves), v \in Values :
          LET m == RecordLeaves[k]
          IN  /\ mem' = Store(m.addr, v)
              /\ lastWrite' = [kind |-> "member", k |-> k, v |-> v, ok |-> TRUE,
                               addr |-> m.addr, top |-> m.top,
                               direct |-> m.direct]
    /\ nwrites' = nwrites + 1
    /\ UNCHANGED <<U, S, uq, cv, base, order, phase, failed, stack, ret, result,
                   lastGet, lastCat, lastCall, maxLvl, steps>>

WriteEntry ==
    /\ phase = "done" /\ nwrites < MaxWrites
    /\ \E k \in 1..Len(result), v \in Values :
          LET e == result[k]
          IN  /\ ~IsTuple(e.ty)
              /\ IF "const" \in e.cv
                 THEN /\ mem' = mem
                      /\ lastWrite' = [kind |-> "entry", k |-> k, v |-> v,
                                       ok |-> FALSE, addr |-> e.addr,
                                       top |-> -1, direct |-> FALSE]
                 ELSE /\ mem' = Store(e.addr, v)
                      /\ lastWrite' = [kind |-> "entry", k |-> k, v |-> v,
                                       ok |-> TRUE, addr |-> e.addr,
                                       top |-> -1, direct |-> FALSE]
    /\ nwrites' = nwrites + 1
    /\ UNCHANGED <<U, S, uq, cv, base, order, phase, failed, stack, ret, result,
                   lastGet, lastCat, lastCall, maxLvl, steps>>

(***************************************************************************)
(* Instantiation of offset_based_getter<U, S> and calls of its get.        *)
(***************************************************************************)
Instantiate ==
    /\ phase = "inst"
    /\ failed' = StaticAsserts(U, S, uq)
    /\ phase' = IF StaticAsserts(U, S, uq) = {} THEN "accepted" ELSE "rejected"
    /\ UNCHANGED <<U, S, uq, cv, base, order, stack, ret, result, mem, lastWrite,
                   nwrites, lastGet, lastCat, lastCall, maxLvl, steps>>

GetMember ==
    /\ phase = "accepted"
    /\ \E idx \in 0..(Len(S) - 1), q \in Quals, layoutAddr \in StackAddrs :
          LET u == [addr |-> base, ty |-> U, cv |-> q]
          IN  /\ cv' = q
              /\ lastGet' = [has |-> TRUE, g |-> "offset", t |-> u, idx |-> idx,
                             r |-> offset_based_get(u, idx, layoutAddr)]
    /\ UNCHANGED <<U, S, uq, base, order, phase, failed, stack, ret, result, mem,
                   lastWrite, nwrites, lastCat, lastCall, maxLvl, steps>>

(***************************************************************************)
(* Initial states and specifications.                                      *)
(***************************************************************************)
Record(u, b, q) == [addr |-> b, ty |-> u, cv |-> q]

\* a record whose member list is s, flattened with offset_based_getter
Build(u, b, q, o) ==
    /\ U = u /\ S = u.el /\ uq = "none" /\ cv = q /\ base = b /\ order = o
    /\ phase = "run" /\ failed = {}
    /\ stack = <<Frame(Record(u, b, q), "offset", 0, Len(u.el), 0, 0,
                        Len(u.el))>>
    /\ ret = None /\ result = <<>>
    /\ mem = LET ml == MemberLeaves(u, b)
             IN  [a \in {ml[k].addr : k \in 1..Len(ml)} |-> 0]
    /\ lastWrite = NoWrite /\ nwrites = 0
    /\ lastGet = NoGet /\ lastCat = NoCat /\ lastCall = NoCall
    /\ maxLvl = 0 /\ steps = 0

Init ==
    \E s \in SeqsUpTo(ElemPool, MaxArity), b \in BaseAddrs, q \in Quals,
       o \in Orders :
        Build(Tup(s), b, q, o)

Next ==
    \/ EmptyCase \/ SingleCase \/ SplitCase \/ SecondHalf \/ Concat
    \/ TieReturn \/ Finish

Spec == Init /\ [][Next]_vars

\* the records that are written to after their flattening
InitRW ==
    \E s \in SeqsUpTo(WritePool, MaxFields), b \in BaseAddrs, q \in Quals :
        Build(Tup(s), b, q, "L")

NextRW == Next \/ WriteMember \/ WriteEntry

SpecRW == InitRW /\ [][NextRW]_vars

\* wide records of one-byte members, and the records of at most one member
WideRecords ==
    { Tup([i \in 1..n |-> TChar]) : n \in 0..MaxWide }
    \cup { Tup(<<e>>) : e \in ElemPool }

InitWide ==
    \E u \in WideRecords, b \in BaseAddrs, o \in Orders : Build(u, b, {}, o)

SpecWide == InitWide /\ [][Next]_vars

UQuals == {"none", "const", "volatile", "reference"}

InitGetter ==
    /\ U \in {Tup(s) : s \in SeqsUpTo(MemberPool, MaxMembers + 1)}
    /\ S \in SeqsUpTo(MemberPool, MaxMembers)
    /\ uq \in UQuals /\ cv = {} /\ base \in BaseAddrs /\ order = "L"
    /\ phase = "inst" /\ failed = {}
    /\ stack = <<>> /\ ret = None /\ result = <<>>
    /\ mem = <<>> /\ lastWrite = NoWrite /\ nwrites = 0
    /\ lastGet = NoGet /\ lastCat = NoCat /\ lastCall = NoCall
    /\ maxLvl = 0 /\ steps = 0

NextGetter == Instantiate \/ GetMember

SpecGetter == InitGetter /\ [][NextGetter]_vars

(***************************************************************************)
(* Properties.                                                             *)
(***************************************************************************)
\* what the builder is to return for (t, g, begin, size), computed entry by
\* entry from left to right: the reference get yields, or, where that
\* reference selects a flattening overload, the entries of the nested tuple
RECURSIVE Flat(_, _, _, _)
Flat(g, t, begin, size) ==
    IF size = 0 THEN <<>>
    ELSE LET r == Get(g, t, begin + size - 1, CHOOSE a \in StackAddrs : TRUE)
         IN  Flat(g, t, begin, size - 1)
             \o (IF IsTuple(r.ty) /\ "volatile" \notin r.cv
                 THEN Flat("sequence", r, 0, Len(r.ty.el))
                 ELSE <<r>>)

\* get yields no non-volatile tuple for the indices of the call c
YieldsNoTuple(c) ==
    \A k \in 0..(c.size - 1), a \in StackAddrs :
        LET r == Get(c.g, c.t, c.begin + k, a)
        IN  ~(IsTuple(r.ty) /\ "volatile" \notin r.cv)

NoTupleMember(s) == \A i \in 1..Len(s) : ~IsTuple(s[i])

\* C1 as stated: entry k of the tuple a call returns is the reference
\* getter.get(tuple, begin + k), for every k in [0, size).
C1_EntryIsGet_AsStated ==
    lastCall.has =>
        /\ Len(lastCall.v) = lastCall.size
        /\ \A k \in 0..(lastCall.size - 1), a \in StackAddrs :
              lastCall.v[k + 1] = Get(lastCall.g, lastCall.t, lastCall.begin + k, a)

\* C1 amended: every call returns, in ascending index order, the references
\* get yields, a non-volatile nested tuple being replaced in place by the
\* entries of its own flattening; so entry k is getter.get(tuple, begin + k)
\* whenever get yields no non-volatile sequence tuple on [begin, begin + size).
C1_EntryIsGet ==
    lastCall.has =>
        /\ lastCall.v = Flat(lastCall.g, lastCall.t, lastCall.begin, lastCall.size)
        /\ YieldsNoTuple(lastCall) =>
              /\ Len(lastCall.v) = lastCall.size
              /\ \A k \in 0..(lastCall.size - 1), a \in StackAddrs :
                    lastCall.v[k + 1] =
                        Get(lastCall.g, lastCall.t, lastCall.begin + k, a)

C1_Witness ==
    /\ lastCall.has /\ lastCall.begin > 0 /\ lastCall.size >= 2
    /\ YieldsNoTuple(lastCall)
    /\ lastCall.g = "offset"

\* number of entries a member of type ty contributes under qualification q
RECURSIVE Entries(_, _)
RECURSIVE EntriesOf(_, _, _)
Entries(ty, q) ==
    IF IsTuple(ty) /\ "volatile" \notin q THEN EntriesOf(ty.el, q, Len(ty.el))
    ELSE 1

EntriesOf(s, q, n) ==
    IF n = 0 THEN 0 ELSE EntriesOf(s, q, n - 1) + Entries(s[n], q)

\* C2 as stated: the tuple built over [0, n) for a record of n members has
\* exactly n entries.
C2_Arity_AsStated == phase = "done" => Len(result) = Len(S)

\* C2 amended: the tuple built over [0, n) has one entry per member that is
\* not a sequence tuple plus the entries of the flattening of every member
\* that is a non-volatile sequence tuple; it has exactly n entries whenever
\* no member is a sequence tuple (n = 0 included) or the record is volatile.
C2_Arity ==
    phase = "done" =>
        /\ Len(result) = EntriesOf(S, cv, Len(S))
        /\ NoTupleMember(S) \/ "volatile" \in cv => Len(result) = Len(S)

C2_Witness ==
    /\ phase = "done" /\ NoTupleMember(S) /\ Len(S) >= 3
    /\ Len(result) = Len(S)

C2_WitnessEmpty == phase = "done" /\ Len(S) = 0 /\ Len(result) = 0

\* C9: my_tuple_cat(t1, t2) has Len(t1) + Len(t2) entries, entry k being
\* entry k of t1 and entry Len(t1) + j being entry j of t2.
C9_CatKeepsPositions ==
    lastCat.has =>
        /\ lastCat.direct
        /\ Len(lastCat.res) = Len(lastCat.t1) + Len(lastCat.t2)
        /\ \A k \in 1..Len(lastCat.t1) : lastCat.res[k] = lastCat.t1[k]
        /\ \A j \in 1..Len(lastCat.t2) :
              lastCat.res[Len(lastCat.t1) + j] = lastCat.t2[j]

C9_Witness ==
    /\ lastCat.has /\ Len(lastCat.t1) >= 1 /\ Len(lastCat.t2) >= 2
    /\ lastCat.res[1] # lastCat.res[Len(lastCat.t1) + 1]

\* the reference get yielded for the size-1 call that returned last
YieldOfLastCall ==
    Get(lastCall.g, lastCall.t, lastCall.begin, CHOOSE a \in StackAddrs : TRUE)

\* C10: a size-1 call whose get yields a reference to a non-volatile sequence
\* tuple returns references to the scalars stored in that tuple, in the order
\* of their storage, with the tuple's qualification, and not one reference to
\* the tuple; so its arity is the number of those scalars.
C10_NestedTupleIsFlattened ==
    (/\ lastCall.has /\ lastCall.size = 1
     /\ IsTuple(YieldOfLastCall.ty) /\ "volatile" \notin YieldOfLastCall.cv) =>
        LET r == YieldOfLastCall
            leaves == Leaves(r.ty, r.addr)
        IN  /\ Len(lastCall.v) = Len(leaves)
            /\ \A k \in 1..Len(leaves) :
                  lastCall.v[k] = [addr |-> leaves[k].addr, ty |-> leaves[k].ty,
                                   cv |-> r.cv]
            /\ lastCall.v # <<r>>

C10_Witness ==
    /\ lastCall.has /\ lastCall.size = 1
    /\ IsTuple(YieldOfLastCall.ty) /\ YieldOfLastCall.cv = {"const"}
    /\ Len(lastCall.v) = 2
    /\ lastCall.nest = 0

\* C3 as stated: after a write of v to member i of the record, reading entry
\* i of the tuple yields v, and after a write of v through entry i, reading
\* member i yields v.
C3_ReadThrough_AsStated ==
    /\ (phase = "done" /\ lastWrite.kind = "member" /\ lastWrite.direct) =>
          /\ lastWrite.top < Len(result)
          /\ Read(result[lastWrite.top + 1].addr) = lastWrite.v
    /\ (phase = "done" /\ lastWrite.kind = "entry" /\ lastWrite.ok) =>
          /\ lastWrite.k <= Len(U.el)
          /\ Read(base + RecordOffset(U, lastWrite.k)) = lastWrite.v

\* C3 amended: read-through holds, after any sequence of writes, between
\* entry i of the tuple and the i-th scalar of the record in declaration
\* order (the scalars of nested sequence tuples included), for a record that
\* is not volatile or has no member that is a sequence tuple; the i-th scalar
\* is member i whenever no member is a sequence tuple.
C3_ReadThrough ==
    (phase = "done" /\ (NoTupleMember(S) \/ "volatile" \notin cv)) =>
        /\ Len(result) = Len(RecordLeaves)
        /\ lastWrite.kind = "member" =>
              Read(result[lastWrite.k].addr) = lastWrite.v
        /\ (lastWrite.kind = "entry" /\ lastWrite.ok) =>
              Read(RecordLeaves[lastWrite.k].addr) = lastWrite.v
        /\ \A k \in 1..Len(result) :
              Read(result[k].addr) = Read(RecordLeaves[k].addr)
        /\ (NoTupleMember(S) /\ lastWrite.kind = "member") =>
              /\ lastWrite.top = lastWrite.k - 1
              /\ Read(result[lastWrite.top + 1].addr) = lastWrite.v

C3_Witness ==
    /\ phase = "done" /\ nwrites >= 2
    /\ lastWrite.kind = "member" /\ lastWrite.k >= 2
    /\ ~NoTupleMember(S) /\ cv = {}
    /\ Read(result[lastWrite.k].addr) = lastWrite.v
    /\ \E k \in 1..Len(result) : Read(result[k].addr) \notin {0, lastWrite.v}

\* C5: get returns a reference to the idx-th member type that carries
\* exactly the qualification of its record argument, every entry of the
\* tuple carries the qualification of the record, and a write through an
\* entry is rejected exactly when the record is const.
C5_QualificationPropagates ==
    /\ lastGet.has =>
          /\ lastGet.r.cv = lastGet.t.cv
          /\ lastGet.g = "offset" => lastGet.r.ty = S[lastGet.idx + 1]
          /\ lastGet.g = "sequence" =>
                lastGet.r.ty = lastGet.t.ty.el[lastGet.idx + 1]
    /\ phase = "done" => \A k \in 1..Len(result) : result[k].cv = cv
    /\ lastWrite.kind = "entry" => (lastWrite.ok <=> "const" \notin cv)
    /\ (lastWrite.kind = "entry" /\ ~lastWrite.ok) =>
          \A k \in 1..Len(result) : Read(result[k].addr) \in {0} \cup Values

C5_Witness ==
    /\ phase = "done" /\ cv = {"const"}
    /\ lastWrite.kind = "entry" /\ ~lastWrite.ok
    /\ Len(result) >= 2

\* some step of the builder can be taken
CanStep ==
    \/ AtEmptyCase \/ AtSingleCase \/ AtSplitCase \/ AtSecondHalf
    \/ AtConcat \/ AtTieReturn \/ AtFinish

\* the least d with 2^d >= n
CeilLog2(n) ==
    CHOOSE d \in 0..n : 2^d >= n /\ \A e \in 0..(d - 1) : 2^e < n

Surrogate == tuple_of_aligned_storage(S)

\* C4: when S is the member list of U, the offset get computes for index i
\* from the surrogate is the offset of the i-th member of U, whatever the
\* address of the surrogate, and the reference get returns is to the address
\* of the record plus that offset, the storage of the i-th member.
C4_OffsetIsMemberOffset ==
    (lastGet.has /\ lastGet.g = "offset" /\ U.el = S) =>
        /\ lastGet.r.addr - lastGet.t.addr = RecordOffset(U, lastGet.idx + 1)
        /\ lastGet.r.addr = base + RecordOffset(U, lastGet.idx + 1)
        /\ lastGet.r.ty = U.el[lastGet.idx + 1]
        /\ \A a \in StackAddrs :
              offset(lastGet.idx, a) = RecordOffset(U, lastGet.idx + 1)

\* a member that follows padding
C4_Witness ==
    /\ lastGet.has /\ phase = "accepted" /\ U.el = S /\ lastGet.idx = 1
    /\ lastGet.r.addr - base > SizeOf(S[1])

\* C6: instantiation is rejected whenever the size or the alignment of the
\* surrogate differs from that of U, by the assertion on the size exactly
\* when the sizes differ and by the assertion on the alignment exactly when
\* the alignments differ; it is accepted only when both are equal.
C6_MismatchIsRejected ==
    phase \in {"accepted", "rejected"} =>
        /\ "size" \in failed <=> TupleSize(Surrogate) # RecordSize(U)
        /\ "align" \in failed <=> TupleAlign(Surrogate) # RecordAlign(U)
        /\ (TupleSize(Surrogate) # RecordSize(U)
               \/ TupleAlign(Surrogate) # RecordAlign(U)) => phase = "rejected"
        /\ phase = "accepted" =>
              /\ TupleSize(Surrogate) = RecordSize(U)
              /\ TupleAlign(Surrogate) = RecordAlign(U)

\* equal sizes, different alignments
C6_Witness ==
    /\ phase = "rejected" /\ failed = {"align"}
    /\ TupleSize(Surrogate) = RecordSize(U)

IsProperPrefix(s, u) ==
    /\ Len(s) < Len(u)
    /\ \A i \in 1..Len(s) : s[i] = u[i]

\* where the last member of the record ends
DataEnd(rec) == EndOf(CellsOf(rec), 1, Len(rec.el), 0)

\* C7 as stated: whenever S is a proper prefix of the member types of U,
\* instantiation is rejected by the assertion on the size (stated here for
\* an unqualified U and a non-empty S).
C7_ShortListRejected_AsStated ==
    (/\ phase \in {"accepted", "rejected"} /\ IsProperPrefix(S, U.el)
     /\ uq = "none" /\ Len(S) >= 1) =>
        /\ phase = "rejected"
        /\ "size" \in failed

\* C7 amended: whenever S is a proper prefix of the member types of U,
\* instantiation is rejected by the assertion on the size exactly when the
\* members S omits do not fit into the padding at the end of S's layout, that
\* is when the last member of U ends beyond sizeof(S); when they fit, sizes
\* and alignments agree and no assertion on the layout fails.
C7_ShortListRejected ==
    (phase \in {"accepted", "rejected"} /\ IsProperPrefix(S, U.el)) =>
        /\ "size" \in failed <=> DataEnd(U) > SizeOf(Tup(S))
        /\ DataEnd(U) <= SizeOf(Tup(S)) => failed \cap {"size", "align"} = {}

C7_Witness ==
    /\ phase = "rejected" /\ IsProperPrefix(S, U.el) /\ Len(S) >= 1
    /\ failed = {"size"}

====
